---- MODULE Spec2Model ----
(***************************************************************************)
(* The Tunnel of neo-clash (src/tunnel/tunnel.go): the rule table and the  *)
(* proxy table under configLock, UpdateConfig (compile of the three        *)
(* configuration sections, teardown of the previous url-test groups, swap  *)
(* of the tables), the dispatch loop over the unbounded queue, and the     *)
(* connection handling task with its rule match.                           *)
(*                                                                         *)
(* Strings are sequences of tokens: a token is a run of characters that    *)
(* the code never looks inside, "," is the separator strings.Split cuts    *)
(* at, and "_" is one whitespace character.                                *)
(***************************************************************************)
EXTENDS Integers, Sequences, FiniteSets, TLC

\* ------------------------------------------------------------------ bounds
MaxCalls == 2
MaxConns == 2
MaxReqs == 2
MaxEvents == 2
MaxGets == 3

\* ------------------------------------------------------------------ strings
COMMA == ","
SPACE == "_"

Str(tok) == <<tok>>

DIRECT == Str("DIRECT")
REJECT == Str("REJECT")

\* index of the first separator of s, 0 when there is none
RECURSIVE IndexFrom(_, _)
IndexFrom(s, i) ==
    IF i > Len(s) THEN 0
    ELSE IF s[i] = COMMA THEN i
    ELSE IndexFrom(s, i + 1)

\* strings.Split(s, ","): n separators give n+1 fields, empty fields included
RECURSIVE Split(_)
Split(s) ==
    LET i == IndexFrom(s, 1) IN
    IF i = 0 THEN <<s>>
    ELSE <<SubSeq(s, 1, i - 1)>> \o Split(SubSeq(s, i + 1, Len(s)))

\* strings.TrimSpace: leading and trailing white space removed
RECURSIVE TrimSpace(_)
TrimSpace(f) ==
    IF f = << >> THEN f
    ELSE IF Head(f) = SPACE THEN TrimSpace(Tail(f))
    ELSE IF f[Len(f)] = SPACE THEN TrimSpace(SubSeq(f, 1, Len(f) - 1))
    ELSE f

trimArr(arr) == [i \in 1..Len(arr) |-> TrimSpace(arr[i])]

\* strconv.Atoi with its error dropped: 0 for anything that is not a number
Atoi(f) ==
    IF f = Str("10") THEN 10
    ELSE IF f = Str("5") THEN 5
    ELSE 0

\* ------------------------------------------------------------------ adapters
\* A proxy is a fresh object of the compile that built it: gen is the number of
\* that UpdateConfig call, slot the position of the group entry that built a
\* url-test group (0 for the other kinds).
NoProxy == [kind |-> "nil"]

NewDirect(gen) == [kind |-> "direct", name |-> DIRECT, gen |-> gen, slot |-> 0]

NewReject(gen) == [kind |-> "reject", name |-> REJECT, gen |-> gen, slot |-> 0]

\* adapters.NewShadowSocks: fails on a URL it cannot use (an unknown cipher)
ShadowSocksOk(ssURL) == ssURL.cipher # Str("bogus")

NewShadowSocks(name, ssURL, gen) ==
    [kind |-> "ss", name |-> name, gen |-> gen, slot |-> 0, url |-> ssURL]

\* adapters.NewURLTest: fails on a probe URL that does not parse, otherwise
\* the group is built and its probe task started
URLTestOk(url) == url # Str("::bad")

NewURLTest(name, ps, url, delay, gen, slot) ==
    [kind |-> "urltest", name |-> name, gen |-> gen, slot |-> slot,
     members |-> ps, url |-> url, delay |-> delay]

IsGroup(p) == p.kind = "urltest"

\* the identity of a url-test group instance
Inst(p) == <<p.gen, p.slot>>

\* ------------------------------------------------------------------ maps
EmptyMap == [n \in {} |-> NoProxy]

Put(m, k, v) == [n \in DOMAIN m \cup {k} |-> IF n = k THEN v ELSE m[n]]

Has(m, k) == k \in DOMAIN m

\* m[k] of a Go map: the zero value (a nil interface) for a missing key
Get(m, k) == IF k \in DOMAIN m THEN m[k] ELSE NoProxy

\* the url-test groups a proxy table holds
GroupsOf(m) == {Inst(m[n]) : n \in {k \in DOMAIN m : IsGroup(m[k])}}

\* ------------------------------------------------------------------ rules
\* rules.NewDomainSuffix / NewDomainKeyword / NewGEOIP / NewIPCIDR / NewFinal
NewRule(type, payload, adapter) ==
    [type |-> type, payload |-> payload, adapter |-> adapter]

NewFinal(adapter) == NewRule("FINAL", << >>, adapter)

HasSuffix(s, suf) ==
    /\ Len(suf) <= Len(s)
    /\ SubSeq(s, Len(s) - Len(suf) + 1, Len(s)) = suf

Contains(s, sub) ==
    \E i \in 1..(Len(s) + 1) :
        /\ i + Len(sub) - 1 <= Len(s)
        /\ SubSeq(s, i, i + Len(sub) - 1) = sub

\* Rule.IsMatch(addr), one case per rule kind
IsMatch(rule, addr) ==
    CASE rule.type = "DOMAIN-SUFFIX" -> HasSuffix(addr.host, rule.payload)
      [] rule.type = "DOMAIN-KEYWORD" -> Contains(addr.host, rule.payload)
      [] rule.type = "GEOIP" -> addr.country = rule.payload
      [] rule.type = "IP-CIDR" -> rule.payload \in addr.nets
      [] rule.type = "FINAL" -> TRUE

\* ------------------------------------------------------------------ compile
\* "Parse proxies": the loop over the Proxy section, with its early return
RECURSIVE ParseProxies(_, _, _, _)
ParseProxies(keys, i, proxies, gen) ==
    IF i > Len(keys) THEN [err |-> FALSE, proxies |-> proxies]
    ELSE
        LET raw == Split(keys[i].value) IN
        IF Len(raw) < 5 THEN ParseProxies(keys, i + 1, proxies, gen)
        ELSE
            LET proxy == trimArr(raw)
                ssURL == [cipher |-> proxy[4], password |-> proxy[5],
                          host |-> proxy[2], port |-> proxy[3]]
            IN
            IF proxy[1] = Str("ss")
            THEN IF ~ShadowSocksOk(ssURL)
                 THEN [err |-> TRUE, proxies |-> proxies]
                 ELSE ParseProxies(keys, i + 1,
                          Put(proxies, keys[i].name,
                              NewShadowSocks(keys[i].name, ssURL, gen)), gen)
            ELSE ParseProxies(keys, i + 1, proxies, gen)

\* a switch whose default case takes the entry for a catch-all rule
ParseRuleDefaultFinal(name) ==
    LET raw == Split(name) IN
    IF Len(raw) < 3 THEN << >>
    ELSE
        LET rule == trimArr(raw) IN
        CASE rule[1] = Str("DOMAIN-SUFFIX") ->
                 <<NewRule("DOMAIN-SUFFIX", rule[2], rule[3])>>
          [] rule[1] = Str("DOMAIN-KEYWORD") ->
                 <<NewRule("DOMAIN-KEYWORD", rule[2], rule[3])>>
          [] rule[1] = Str("GEOIP") ->
                 <<NewRule("GEOIP", rule[2], rule[3])>>
          [] rule[1] \in {Str("IP-CIDR"), Str("IP-CIDR6")} ->
                 <<NewRule("IP-CIDR", rule[2], rule[3])>>
          [] OTHER -> <<NewFinal(rule[3])>>

\* one entry of the Rule section: the rules it appends (none or one)
ParseRule(name) ==
    LET raw == Split(name) IN
    IF Len(raw) < 3 THEN << >>
    ELSE
        LET rule == trimArr(raw) IN
        CASE rule[1] = Str("DOMAIN-SUFFIX") ->
                 <<NewRule("DOMAIN-SUFFIX", rule[2], rule[3])>>
          [] rule[1] = Str("DOMAIN-KEYWORD") ->
                 <<NewRule("DOMAIN-KEYWORD", rule[2], rule[3])>>
          [] rule[1] = Str("GEOIP") ->
                 <<NewRule("GEOIP", rule[2], rule[3])>>
          [] rule[1] \in {Str("IP-CIDR"), Str("IP-CIDR6")} ->
                 <<NewRule("IP-CIDR", rule[2], rule[3])>>
          [] rule[1] = Str("FINAL") ->
                 <<NewFinal(rule[3])>>
          [] OTHER -> << >>

\* "Parse rules": the loop over the Rule section
RECURSIVE ParseRules(_, _, _)
ParseRules(keys, i, rules) ==
    IF i > Len(keys) THEN rules
    ELSE ParseRules(keys, i + 1, rules \o ParseRule(keys[i].name))

\* a lookup that collects the members from the last listed name to the first
RECURSIVE ResolveReversed(_, _, _)
ResolveReversed(proxyNames, i, proxies) ==
    IF i > Len(proxyNames) THEN << >>
    ELSE ResolveReversed(proxyNames, i + 1, proxies)
             \o (IF Has(proxies, proxyNames[i]) THEN <<proxies[proxyNames[i]]>> ELSE << >>)

\* the members of a group: the listed names the table built so far resolves
RECURSIVE Resolve(_, _, _)
Resolve(proxyNames, i, proxies) ==
    IF i > Len(proxyNames) THEN << >>
    ELSE (IF Has(proxies, proxyNames[i]) THEN <<proxies[proxyNames[i]]>> ELSE << >>)
             \o Resolve(proxyNames, i + 1, proxies)

\* "Parse proxy groups": the loop over the Proxy Group section, with its early
\* return; made collects the group instances NewURLTest has built
RECURSIVE ParseGroups(_, _, _, _, _)
ParseGroups(keys, i, proxies, made, gen) ==
    IF i > Len(keys) THEN [err |-> FALSE, proxies |-> proxies, made |-> made]
    ELSE
        LET raw == Split(keys[i].value) IN
        IF Len(raw) < 4 THEN ParseGroups(keys, i + 1, proxies, made, gen)
        ELSE
            LET group == trimArr(raw)
                n == Len(group)
                proxyNames == SubSeq(group, 2, n - 2)
                delay == Atoi(group[n])
                url == group[n - 1]
                ps == Resolve(proxyNames, 1, proxies)
                adapter == NewURLTest(keys[i].name, ps, url, delay, gen, i)
            IN
            IF group[1] = Str("url-test")
            THEN IF ~URLTestOk(url)
                 THEN [err |-> TRUE, proxies |-> proxies, made |-> made]
                 ELSE ParseGroups(keys, i + 1, Put(proxies, keys[i].name, adapter),
                                  made \cup {Inst(adapter)}, gen)
            ELSE ParseGroups(keys, i + 1, proxies, made, gen)

\* defaults that give way to a user's entry of the same name
AddDefaultsIfAbsent(proxies, gen) ==
    LET d == IF Has(proxies, DIRECT) THEN proxies ELSE Put(proxies, DIRECT, NewDirect(gen))
    IN  IF Has(d, REJECT) THEN d ELSE Put(d, REJECT, NewReject(gen))

\* "Add default proxies"
AddDefaults(proxies, gen) ==
    Put(Put(proxies, DIRECT, NewDirect(gen)), REJECT, NewReject(gen))

\* lines 57-130 of UpdateConfig: the tables built from a document that was read
Compile(cfg, gen) ==
    LET ps == ParseProxies(cfg.proxy, 1, EmptyMap, gen) IN
    IF ps.err THEN [err |-> TRUE, made |-> {}]
    ELSE
        LET rs == ParseRules(cfg.rule, 1, << >>)
            gs == ParseGroups(cfg.group, 1, ps.proxies, {}, gen)
        IN
        IF gs.err THEN [err |-> TRUE, made |-> gs.made]
        ELSE [err |-> FALSE, made |-> gs.made,
              rules |-> [gen |-> gen, seq |-> rs],
              proxies |-> [gen |-> gen, tbl |-> AddDefaults(gs.proxies, gen)]]

\* ------------------------------------------------------------------ inputs
\* a line of the configuration file: its fields joined by ", "
RECURSIVE Line(_)
Line(fields) ==
    IF Len(fields) = 1 THEN fields[1]
    ELSE fields[1] \o <<COMMA, SPACE>> \o Line(Tail(fields))

Key(name, fields) == [name |-> Str(name), value |-> Line(fields)]

RuleKey(fields) == [name |-> Line(fields)]

F(tok) == Str(tok)

SSGood == <<F("ss"), F("1.2.3.4"), F("8388"), F("aes-256-gcm"), F("pass")>>
SSBogus == <<F("ss"), F("1.2.3.4"), F("8388"), F("bogus"), F("pass")>>
ProbeURL == F("http://probe")

\* the scenario of the documentation: a tunnel proxy, two groups, four rules
DocPlain ==
    [proxy |-> <<Key("PROXY1", SSGood)>>,
     group |-> <<Key("auto", <<F("url-test"), F("PROXY1"), F("DIRECT"), ProbeURL, F("10")>>),
                 Key("pick", <<F("url-test"), F("auto"), F("PROXY1"), ProbeURL, F("5")>>)>>,
     rule  |-> <<RuleKey(<<F("DOMAIN-SUFFIX"), F("example.com"), F("PROXY1")>>),
                 RuleKey(<<F("GEOIP"), F("CN"), F("auto")>>),
                 RuleKey(<<F("FINAL"), << >>, F("DIRECT")>>)>>]

\* entries the compile skips: short lines, kinds it does not know; a group
\* none of whose members is declared
DocMalformed ==
    [proxy |-> <<Key("PROXY1", <<F("ss"), F("1.2.3.4"), F("8388"), F("pass")>>),
                 Key("PROXY2", <<F("vmess"), F("1.2.3.4"), F("443"), F("auto"), F("uuid")>>)>>,
     group |-> <<Key("auto", <<F("url-test"), ProbeURL, F("10")>>),
                 Key("sel", <<F("select"), F("PROXY1"), F("PROXY2"), F("x")>>),
                 Key("lone", <<F("url-test"), F("PROXY1"), F("DIRECT"), ProbeURL, F("5")>>)>>,
     rule  |-> <<RuleKey(<<F("DOMAIN"), F("PROXY1")>>),
                 RuleKey(<<F("FINAL"), << >>, F("DIRECT")>>)>>]

\* reserved names declared by the user, a rule naming no proxy, a rule after FINAL
DocStale ==
    [proxy |-> <<Key("DIRECT", SSGood), Key("PROXY1", SSGood)>>,
     group |-> <<Key("REJECT", <<F("url-test"), F("PROXY1"), ProbeURL, F("5")>>)>>,
     rule  |-> <<RuleKey(<<F("DOMAIN-SUFFIX"), F("example.com"), F("GONE")>>),
                 RuleKey(<<F("DOMAIN-KEYWORD"), F("example.com"), F("PROXY1")>>),
                 RuleKey(<<F("USER-AGENT"), F("curl"), F("PROXY1")>>),
                 RuleKey(<<F("FINAL"), << >>, F("REJECT")>>),
                 RuleKey(<<F("IP-CIDR"), F("10.0.0.0/8"), F("PROXY1")>>)>>]

\* a group whose probe URL does not parse, declared after a group that is built
DocBadGroup ==
    [proxy |-> <<Key("PROXY1", SSGood)>>,
     group |-> <<Key("auto", <<F("url-test"), F("PROXY1"), ProbeURL, F("10")>>),
                 Key("broken", <<F("url-test"), F("PROXY1"), F("::bad"), F("10")>>)>>,
     rule  |-> <<RuleKey(<<F("FINAL"), << >>, F("auto")>>)>>]

\* a tunnel proxy the constructor refuses
DocBadProxy ==
    [proxy |-> <<Key("PROXY1", SSBogus)>>,
     group |-> << >>,
     rule  |-> <<RuleKey(<<F("FINAL"), << >>, F("PROXY1")>>)>>]

Docs == {DocPlain, DocMalformed, DocStale, DocBadGroup, DocBadProxy}

Addrs ==
    {[host |-> <<"www.", "example.com">>, country |-> F("US"), nets |-> {}],
     [host |-> <<"other.org">>, country |-> F("CN"), nets |-> {F("10.0.0.0/8")}]}

\* ------------------------------------------------------------------ state
Updaters == 1..MaxCalls     \* the callers of UpdateConfig, one call each
Conns == 1..MaxConns        \* the connection handles the acceptor submits
\* the tables newTunnel builds belong to no call of UpdateConfig
InitGen == 0

\* the zero RWMutex: no writer
NoWriter == 0

Reqs == 1..MaxReqs          \* the requests the log stream handler serves
Callers == 1..MaxGets       \* the callers of GetInstance

\* the package variable tunnel before newTunnel ran
NoTunnel == 0

\* the level of a request that has none yet
NoLevel == -1

NoResp == [code |-> 0, msg |-> ""]

VARIABLES
    rules,       \* t.rules: the live rule table, with the call that built it
    proxies,     \* t.proxies: the live proxy table, with the call that built it
    readers,     \* configLock: the holders of the shared mode
    writer,      \* configLock: the caller inside Lock(), NoWriter when there is none
    wheld,       \* configLock: TRUE once that caller holds the exclusive mode
    upc,         \* UpdateConfig: where each caller is
    ucfg,        \* UpdateConfig: the document each caller read
    unew,        \* UpdateConfig: the local rules and proxies of each caller
    ures,        \* UpdateConfig: what each call returned
    alive,       \* url-test groups: the instances built, their probe task started
    closes,      \* url-test groups: how often Close was called on each instance
    queue,       \* t.queue: the handles submitted and not yet dequeued
    hpc,         \* handleConn: where each handling task is
    haddr,       \* handleConn: localConn.Addr()
    hrules,      \* match: the rule table the range loop iterates
    hproxy,      \* match / handleConn: the table a proxy was read from, the proxy
    hlogs,       \* the log events each handling task has sent on logCh
    lclosed,     \* how often localConn.Close ran
    rclosed,     \* how often remoteConn.Close ran
    cpc,         \* Config(): where the caller is
    cseen,       \* Config(): the tables read so far
    lpc,         \* logsHandler: where each request is
    lreq,        \* logsHandler: req.Level
    llevel,      \* logsHandler: level
    lresp,       \* logsHandler: the error response written, if any
    lseen,       \* logsHandler: the events received from sub
    lsent,       \* logsHandler: the entries encoded and flushed
    subs,        \* the log bus: the live subscriptions
    busOpen,     \* the log bus: FALSE once it is closed for good
    nsub,        \* how often Subscribe succeeded for each request
    nunsub,      \* how often UnSubscribe ran for each request
    once,        \* sync.Once: "fresh", "running" or "done"
    tunnel,      \* the package variable tunnel: the instance stored
    built,       \* how often newTunnel ran
    nprocess,    \* the process tasks started
    nsublogs,    \* the subscribeLogs tasks started
    gpc,         \* GetInstance: where each caller is
    gret         \* GetInstance: what each caller got

vars == <<rules, proxies, readers, writer, wheld, upc, ucfg, unew, ures, alive, closes,
          queue, hpc, haddr, hrules, hproxy, hlogs, lclosed, rclosed,
          cpc, cseen,
          lpc, lreq, llevel, lresp, lseen, lsent, subs, busOpen, nsub, nunsub,
          once, tunnel, built, nprocess, nsublogs, gpc, gret>>

lockVars == <<readers, writer, wheld>>
tableVars == <<rules, proxies>>
updVars == <<upc, ucfg, unew, ures>>
groupVars == <<alive, closes>>
connVars == <<queue, hpc, haddr, hrules, hproxy, hlogs, lclosed, rclosed>>
cfgVars == <<cpc, cseen>>
hubVars == <<lpc, lreq, llevel, lresp, lseen, lsent, subs, busOpen, nsub, nunsub>>
instVars == <<once, tunnel, built, nprocess, nsublogs, gpc, gret>>
tunnelVars == <<tableVars, lockVars, updVars, groupVars, connVars, cfgVars>>

NoAddr == [host |-> << >>, country |-> << >>, nets |-> {}]

NoDoc == [proxy |-> << >>, group |-> << >>, rule |-> << >>]

NoMatch == [gen |-> InitGen, found |-> FALSE, proxy |-> NoProxy]

NoTables == [rules |-> [gen |-> InitGen, seq |-> << >>],
             proxies |-> [gen |-> InitGen, tbl |-> EmptyMap]]

\* the program at start. The Tunnel is as newTunnel builds it: no rules, an
\* empty proxy table, an empty queue, the lock free; no log stream request has
\* arrived, the bus is open and GetInstance has not been called
Init ==
    /\ rules = [gen |-> InitGen, seq |-> << >>]
    /\ proxies = [gen |-> InitGen, tbl |-> EmptyMap]
    /\ readers = {}
    /\ writer = NoWriter
    /\ wheld = FALSE
    /\ upc = [u \in Updaters |-> "idle"]
    /\ ucfg = [u \in Updaters |-> NoDoc]
    /\ unew = [u \in Updaters |-> NoTables]
    /\ ures = [u \in Updaters |-> "none"]
    /\ alive = {}
    /\ closes = [g \in {} |-> 0]
    /\ queue = << >>
    /\ hpc = [c \in Conns |-> "new"]
    /\ haddr = [c \in Conns |-> NoAddr]
    /\ hrules = [c \in Conns |-> NoTables.rules]
    /\ hproxy = [c \in Conns |-> NoMatch]
    /\ hlogs = [c \in Conns |-> << >>]
    /\ lclosed = [c \in Conns |-> 0]
    /\ rclosed = [c \in Conns |-> 0]
    /\ cpc = "idle"
    /\ cseen = [rules |-> InitGen, proxies |-> InitGen]
    /\ lpc = [r \in Reqs |-> "new"]
    /\ lreq = [r \in Reqs |-> ""]
    /\ llevel = [r \in Reqs |-> NoLevel]
    /\ lresp = [r \in Reqs |-> NoResp]
    /\ lseen = [r \in Reqs |-> 0]
    /\ lsent = [r \in Reqs |-> 0]
    /\ subs = {}
    /\ busOpen = TRUE
    /\ nsub = [r \in Reqs |-> 0]
    /\ nunsub = [r \in Reqs |-> 0]
    /\ once = "fresh"
    /\ tunnel = NoTunnel
    /\ built = 0
    /\ nprocess = 0
    /\ nsublogs = 0
    /\ gpc = [g \in Callers |-> "idle"]
    /\ gret = [g \in Callers |-> NoTunnel]

\* an unrecovered panic of a handling task ends the process: nothing runs after
Crashed == \E c \in Conns : hpc[c] = "panic"

\* ------------------------------------------------------------------ configLock
\* a shared mode that is granted whatever the writers do
CanRLockAlways == TRUE

\* RLock: granted unless a writer holds the lock or waits for it
CanRLock == writer = NoWriter

\* Lock: one writer at a time announces itself, then waits for the readers
CanLock == writer = NoWriter

CanAcquire(u) == writer = u /\ ~wheld /\ readers = {}

\* ------------------------------------------------------------------ UpdateConfig
\* C.GetConfig fails: the error is returned
UCGetConfigFail(u) ==
    /\ ~Crashed
    /\ upc[u] = "idle"
    /\ upc' = [upc EXCEPT ![u] = "done"]
    /\ ures' = [ures EXCEPT ![u] = "err"]
    /\ UNCHANGED <<hubVars, instVars, ucfg, unew, tableVars, lockVars, groupVars, connVars, cfgVars>>

\* C.GetConfig returns the document the configuration source holds
UCGetConfig(u, cfg) ==
    /\ ~Crashed
    /\ upc[u] = "idle"
    /\ ucfg' = [ucfg EXCEPT ![u] = cfg]
    /\ upc' = [upc EXCEPT ![u] = "compile"]
    /\ UNCHANGED <<hubVars, instVars, unew, ures, tableVars, lockVars, groupVars, connVars, cfgVars>>

\* a failing compile that has already stopped the url-test groups in use
UCCompileFailStopsFirst(u) ==
    /\ ~Crashed
    /\ upc[u] = "compile"
    /\ LET r == Compile(ucfg[u], u) IN
        /\ r.err
        /\ alive' = (alive \ GroupsOf(proxies.tbl)) \cup r.made
        /\ closes' = [g \in DOMAIN closes \cup r.made |->
                          IF g \in GroupsOf(proxies.tbl) THEN closes[g] + 1
                          ELSE IF g \in DOMAIN closes THEN closes[g] ELSE 0]
    /\ ucfg' = [ucfg EXCEPT ![u] = NoDoc]
    /\ upc' = [upc EXCEPT ![u] = "done"]
    /\ ures' = [ures EXCEPT ![u] = "err"]
    /\ UNCHANGED <<hubVars, instVars, unew, tableVars, lockVars, connVars, cfgVars>>

\* the compile returns early with an error; the groups built so far stay as
\* they are
UCCompileFail(u) ==
    /\ ~Crashed
    /\ upc[u] = "compile"
    /\ LET r == Compile(ucfg[u], u) IN
        /\ r.err
        /\ alive' = alive \cup r.made
        /\ closes' = [g \in DOMAIN closes \cup r.made |->
                          IF g \in DOMAIN closes THEN closes[g] ELSE 0]
    /\ ucfg' = [ucfg EXCEPT ![u] = NoDoc]
    /\ upc' = [upc EXCEPT ![u] = "done"]
    /\ ures' = [ures EXCEPT ![u] = "err"]
    /\ UNCHANGED <<hubVars, instVars, unew, tableVars, lockVars, connVars, cfgVars>>

\* the compile succeeds: the caller goes on to t.configLock.Lock()
UCCompileOk(u) ==
    /\ ~Crashed
    /\ upc[u] = "compile"
    /\ LET r == Compile(ucfg[u], u) IN
        /\ ~r.err
        /\ alive' = alive \cup r.made
        /\ closes' = [g \in DOMAIN closes \cup r.made |->
                          IF g \in DOMAIN closes THEN closes[g] ELSE 0]
        /\ unew' = [unew EXCEPT ![u] = [rules |-> r.rules, proxies |-> r.proxies]]
    /\ ucfg' = [ucfg EXCEPT ![u] = NoDoc]
    /\ upc' = [upc EXCEPT ![u] = "lock"]
    /\ UNCHANGED <<hubVars, instVars, ures, tableVars, lockVars, connVars, cfgVars>>

\* t.configLock.Lock(), first half: the writer announces itself
UCLock(u) ==
    /\ ~Crashed
    /\ upc[u] = "lock"
    /\ CanLock
    /\ writer' = u
    /\ upc' = [upc EXCEPT ![u] = "wait"]
    /\ UNCHANGED <<hubVars, instVars, ucfg, readers, wheld, unew, ures, tableVars, groupVars, connVars, cfgVars>>

\* t.configLock.Lock(), second half: the readers have left
UCAcquire(u) ==
    /\ ~Crashed
    /\ upc[u] = "wait"
    /\ CanAcquire(u)
    /\ wheld' = TRUE
    /\ upc' = [upc EXCEPT ![u] = "stop"]
    /\ UNCHANGED <<hubVars, instVars, ucfg, readers, writer, unew, ures, tableVars, groupVars, connVars, cfgVars>>

\* "Stop existing URL tests": Close on every url-test group of t.proxies
StopURLTests(cl, tbl) ==
    [g \in DOMAIN cl |-> IF g \in GroupsOf(tbl) THEN cl[g] + 1 ELSE cl[g]]

\* a teardown that iterates the new table instead of the previous one
UCStopNew(u) ==
    /\ ~Crashed
    /\ upc[u] = "stop"
    /\ closes' = StopURLTests(closes, unew[u].proxies.tbl)
    /\ alive' = alive \ GroupsOf(unew[u].proxies.tbl)
    /\ upc' = [upc EXCEPT ![u] = "proxies"]
    /\ UNCHANGED <<hubVars, instVars, ucfg, unew, ures, tableVars, lockVars, connVars, cfgVars>>

\* Close on every url-test group of the live table, under the exclusive lock
UCStop(u) ==
    /\ ~Crashed
    /\ upc[u] = "stop"
    /\ closes' = StopURLTests(closes, proxies.tbl)
    /\ alive' = alive \ GroupsOf(proxies.tbl)
    /\ upc' = [upc EXCEPT ![u] = "proxies"]
    /\ UNCHANGED <<hubVars, instVars, ucfg, unew, ures, tableVars, lockVars, connVars, cfgVars>>

\* a swap that hands the new DIRECT proxy to the tasks about to connect
UCSetProxiesRedirects(u) ==
    /\ ~Crashed
    /\ upc[u] = "proxies"
    /\ proxies' = unew[u].proxies
    /\ hproxy' = [c \in Conns |->
                     IF hpc[c] = "generator"
                     THEN [gen |-> u, found |-> FALSE,
                           proxy |-> Get(unew[u].proxies.tbl, DIRECT)]
                     ELSE hproxy[c]]
    /\ upc' = [upc EXCEPT ![u] = "rules"]
    /\ UNCHANGED <<hubVars, instVars, ucfg, rules, unew, ures, lockVars, groupVars,
                   queue, hpc, haddr, hrules, hlogs, lclosed, rclosed, cfgVars>>

\* t.proxies = proxies
UCSetProxies(u) ==
    /\ ~Crashed
    /\ upc[u] = "proxies"
    /\ proxies' = unew[u].proxies
    /\ upc' = [upc EXCEPT ![u] = "rules"]
    /\ UNCHANGED <<hubVars, instVars, ucfg, rules, unew, ures, lockVars, groupVars, connVars, cfgVars>>

\* t.rules = rules
UCSetRules(u) ==
    /\ ~Crashed
    /\ upc[u] = "rules"
    /\ rules' = unew[u].rules
    /\ upc' = [upc EXCEPT ![u] = "unlock"]
    /\ UNCHANGED <<hubVars, instVars, ucfg, proxies, unew, ures, lockVars, groupVars, connVars, cfgVars>>

\* return nil, the deferred Unlock
UCReturn(u) ==
    /\ ~Crashed
    /\ upc[u] = "unlock"
    /\ writer' = NoWriter
    /\ wheld' = FALSE
    /\ upc' = [upc EXCEPT ![u] = "done"]
    /\ ures' = [ures EXCEPT ![u] = "ok"]
    /\ unew' = [unew EXCEPT ![u] = NoTables]
    /\ UNCHANGED <<hubVars, instVars, ucfg, readers, tableVars, groupVars, connVars, cfgVars>>

\* ------------------------------------------------------------------ Add, process
\* Add: the handle goes into the unbounded queue
Add(c, addr) ==
    /\ ~Crashed
    /\ hpc[c] = "new"
    /\ queue' = Append(queue, c)
    /\ hpc' = [hpc EXCEPT ![c] = "queued"]
    /\ haddr' = [haddr EXCEPT ![c] = addr]
    /\ UNCHANGED <<hubVars, instVars, hrules, hproxy, hlogs, lclosed, rclosed,
                   tableVars, lockVars, updVars, groupVars, cfgVars>>

\* process: one turn of the dispatch loop, elm := <-queue; go t.handleConn(conn)
Process ==
    /\ ~Crashed
    /\ queue # << >>
    /\ queue' = Tail(queue)
    /\ hpc' = [hpc EXCEPT ![Head(queue)] = "start"]
    /\ UNCHANGED <<hubVars, instVars, haddr, hrules, hproxy, hlogs, lclosed, rclosed,
                   tableVars, lockVars, updVars, groupVars, cfgVars>>

\* ------------------------------------------------------------------ match
Me(c) == <<"conn", c>>

\* the range loop of match over the rules rs from position i, looking names up
\* in the proxy table tbl: the proxy of the rule it returns at, if it returns
\* a scan that keeps going and answers with the last rule that matches
RECURSIVE ScanLast(_, _, _, _)
ScanLast(rs, i, tbl, addr) ==
    IF i > Len(rs) THEN [found |-> FALSE, proxy |-> NoProxy]
    ELSE LET rest == ScanLast(rs, i + 1, tbl, addr) IN
         IF rest.found THEN rest
         ELSE IF IsMatch(rs[i], addr) /\ Has(tbl, rs[i].adapter)
              THEN [found |-> TRUE, proxy |-> tbl[rs[i].adapter]]
              ELSE rest

RECURSIVE Scan(_, _, _, _)
Scan(rs, i, tbl, addr) ==
    IF i > Len(rs) THEN [found |-> FALSE, proxy |-> NoProxy]
    ELSE IF IsMatch(rs[i], addr) /\ Has(tbl, rs[i].adapter)
         THEN [found |-> TRUE, proxy |-> tbl[rs[i].adapter]]
         ELSE Scan(rs, i + 1, tbl, addr)

\* t.configLock.RLock()
MatchRLock(c) ==
    /\ ~Crashed
    /\ hpc[c] = "start"
    /\ CanRLock
    /\ readers' = readers \cup {Me(c)}
    /\ hpc' = [hpc EXCEPT ![c] = "range"]
    /\ UNCHANGED <<hubVars, instVars, writer, wheld, queue, haddr, hrules, hproxy, hlogs,
                   lclosed, rclosed, tableVars, updVars, groupVars, cfgVars>>

\* range t.rules: the loop iterates the table it read here
MatchRange(c) ==
    /\ ~Crashed
    /\ hpc[c] = "range"
    /\ hrules' = [hrules EXCEPT ![c] = rules]
    /\ hpc' = [hpc EXCEPT ![c] = "scan"]
    /\ UNCHANGED <<hubVars, instVars, queue, haddr, hproxy, hlogs, lclosed, rclosed,
                   tableVars, lockVars, updVars, groupVars, cfgVars>>

\* the loop body, up to the send of the log event
MatchScan(c) ==
    /\ ~Crashed
    /\ hpc[c] = "scan"
    /\ LET r == Scan(hrules[c].seq, 1, proxies.tbl, haddr[c]) IN
        hproxy' = [hproxy EXCEPT ![c] =
                      [gen |-> proxies.gen, found |-> r.found, proxy |-> r.proxy]]
    /\ hpc' = [hpc EXCEPT ![c] = "log"]
    /\ UNCHANGED <<hubVars, instVars, queue, haddr, hrules, hlogs, lclosed, rclosed,
                   tableVars, lockVars, updVars, groupVars, cfgVars>>

\* a match whose shared lock is still held when it has returned
MatchReturnKeepsLock(c) ==
    /\ ~Crashed
    /\ hpc[c] = "log"
    /\ hlogs' = [hlogs EXCEPT ![c] = Append(@, "INFO")]
    /\ hproxy' = [hproxy EXCEPT ![c] =
                     IF @.found THEN @
                     ELSE [gen |-> proxies.gen, found |-> FALSE,
                           proxy |-> Get(proxies.tbl, DIRECT)]]
    /\ hrules' = [hrules EXCEPT ![c] = NoTables.rules]
    /\ hpc' = [hpc EXCEPT ![c] = "generator"]
    /\ UNCHANGED <<hubVars, instVars, readers, writer, wheld, queue, haddr, lclosed, rclosed,
                   tableVars, updVars, groupVars, cfgVars>>

\* the send on logCh is received; the matched proxy or t.proxies["DIRECT"] is
\* returned, and the deferred RUnlock runs
MatchReturn(c) ==
    /\ ~Crashed
    /\ hpc[c] = "log"
    /\ hlogs' = [hlogs EXCEPT ![c] = Append(@, "INFO")]
    /\ hproxy' = [hproxy EXCEPT ![c] =
                     IF @.found THEN @
                     ELSE [gen |-> proxies.gen, found |-> FALSE,
                           proxy |-> Get(proxies.tbl, DIRECT)]]
    /\ hrules' = [hrules EXCEPT ![c] = NoTables.rules]
    /\ readers' = readers \ {Me(c)}
    /\ hpc' = [hpc EXCEPT ![c] = "generator"]
    /\ UNCHANGED <<hubVars, instVars, writer, wheld, queue, haddr, lclosed, rclosed,
                   tableVars, updVars, groupVars, cfgVars>>

\* ------------------------------------------------------------------ handleConn
\* Proxy.Generator: a reject proxy never connects, any other may
CanConnect(p) == p.kind # "reject"

\* proxy.Generator on the nil proxy: the method call panics, the deferred
\* localConn.Close runs and the process dies
GeneratorPanic(c) ==
    /\ ~Crashed
    /\ hpc[c] = "generator"
    /\ hproxy[c].proxy = NoProxy
    /\ lclosed' = [lclosed EXCEPT ![c] = @ + 1]
    /\ hpc' = [hpc EXCEPT ![c] = "panic"]
    /\ UNCHANGED <<hubVars, instVars, queue, haddr, hrules, hproxy, hlogs, rclosed,
                   tableVars, lockVars, updVars, groupVars, cfgVars>>

\* proxy.Generator returns a connection: remoteConn is the connection of the
\* proxy match returned
GeneratorOk(c) ==
    /\ ~Crashed
    /\ hpc[c] = "generator"
    /\ hproxy[c].proxy # NoProxy
    /\ CanConnect(hproxy[c].proxy)
    /\ hpc' = [hpc EXCEPT ![c] = "relay"]
    /\ haddr' = [haddr EXCEPT ![c] = NoAddr]
    /\ UNCHANGED <<hubVars, instVars, queue, hrules, hproxy, hlogs, lclosed, rclosed,
                   tableVars, lockVars, updVars, groupVars, cfgVars>>

\* proxy.Generator returns an error
GeneratorErr(c) ==
    /\ ~Crashed
    /\ hpc[c] = "generator"
    /\ hproxy[c].proxy # NoProxy
    /\ hpc' = [hpc EXCEPT ![c] = "warn"]
    /\ haddr' = [haddr EXCEPT ![c] = NoAddr]
    /\ hproxy' = [hproxy EXCEPT ![c] = NoMatch]
    /\ UNCHANGED <<hubVars, instVars, queue, hrules, hlogs, lclosed, rclosed,
                   tableVars, lockVars, updVars, groupVars, cfgVars>>

\* a failure path that calls Close on an outbound connection
WarnClosesRemote(c) ==
    /\ ~Crashed
    /\ hpc[c] = "warn"
    /\ hlogs' = [hlogs EXCEPT ![c] = Append(@, "WARNING")]
    /\ rclosed' = [rclosed EXCEPT ![c] = @ + 1]
    /\ hpc' = [hpc EXCEPT ![c] = "closing"]
    /\ UNCHANGED <<hubVars, instVars, queue, haddr, hrules, hproxy, lclosed,
                   tableVars, lockVars, updVars, groupVars, cfgVars>>

\* the WARNING event is received from logCh; handleConn returns
Warn(c) ==
    /\ ~Crashed
    /\ hpc[c] = "warn"
    /\ hlogs' = [hlogs EXCEPT ![c] = Append(@, "WARNING")]
    /\ hpc' = [hpc EXCEPT ![c] = "closing"]
    /\ UNCHANGED <<hubVars, instVars, queue, haddr, hrules, hproxy, lclosed, rclosed,
                   tableVars, lockVars, updVars, groupVars, cfgVars>>

\* a relay whose outbound connection is left open
RelayLeavesOpen(c) ==
    /\ ~Crashed
    /\ hpc[c] = "relay"
    /\ hproxy' = [hproxy EXCEPT ![c] = NoMatch]
    /\ hpc' = [hpc EXCEPT ![c] = "closing"]
    /\ UNCHANGED <<hubVars, instVars, queue, haddr, hrules, hlogs, lclosed, rclosed,
                   tableVars, lockVars, updVars, groupVars, cfgVars>>

\* localConn.Connect(remoteConn) returns; the deferred remoteConn.Close runs
Relay(c) ==
    /\ ~Crashed
    /\ hpc[c] = "relay"
    /\ rclosed' = [rclosed EXCEPT ![c] = @ + 1]
    /\ hproxy' = [hproxy EXCEPT ![c] = NoMatch]
    /\ hpc' = [hpc EXCEPT ![c] = "closing"]
    /\ UNCHANGED <<hubVars, instVars, queue, haddr, hrules, hlogs, lclosed,
                   tableVars, lockVars, updVars, groupVars, cfgVars>>

\* the deferred localConn.Close runs
CloseLocal(c) ==
    /\ ~Crashed
    /\ hpc[c] = "closing"
    /\ lclosed' = [lclosed EXCEPT ![c] = @ + 1]
    /\ hpc' = [hpc EXCEPT ![c] = "done"]
    /\ UNCHANGED <<hubVars, instVars, queue, haddr, hrules, hproxy, hlogs, rclosed,
                   tableVars, lockVars, updVars, groupVars, cfgVars>>

\* ------------------------------------------------------------------ Config
Cfg == <<"cfg", 1>>

\* t.configLock.RLock()
ConfigRLock ==
    /\ ~Crashed
    /\ cpc = "idle"
    /\ CanRLock
    /\ readers' = readers \cup {Cfg}
    /\ cseen' = [rules |-> InitGen, proxies |-> InitGen]
    /\ cpc' = "rules"
    /\ UNCHANGED <<hubVars, instVars, writer, wheld, tableVars, updVars, groupVars, connVars>>

\* the first operand of the return: t.rules
ConfigRules ==
    /\ ~Crashed
    /\ cpc = "rules"
    /\ cseen' = [cseen EXCEPT !.rules = rules.gen]
    /\ cpc' = "proxies"
    /\ UNCHANGED <<hubVars, instVars, tableVars, lockVars, updVars, groupVars, connVars>>

\* the second operand of the return: t.proxies
ConfigProxies ==
    /\ ~Crashed
    /\ cpc = "proxies"
    /\ cseen' = [cseen EXCEPT !.proxies = proxies.gen]
    /\ cpc' = "ret"
    /\ UNCHANGED <<hubVars, instVars, tableVars, lockVars, updVars, groupVars, connVars>>

\* the deferred RUnlock
ConfigReturn ==
    /\ ~Crashed
    /\ cpc = "ret"
    /\ readers' = readers \ {Cfg}
    /\ cpc' = "idle"
    /\ UNCHANGED <<hubVars, instVars, cseen, writer, wheld, tableVars, updVars, groupVars, connVars>>

\* ------------------------------------------------------------------ logsHandler
\* tunnel.LogLevel: ERROR, WARNING, INFO, DEBUG in increasing verbosity
LogLevels == 0..3

\* levelMapping
LevelMapping == [info |-> 2, debug |-> 3, error |-> 0, warning |-> 1]

\* the level strings a request may carry
LevelInputs == {"", "info", "debug", "error", "warning", "trace", "INFO"}

\* Subscribe: refused once the bus is closed for good
CanSubscribe == busOpen

\* UnSubscribe: the subscription is removed if it is still there
UnSubscribe(S, r) == S \ {r}

\* render.DecodeJSON fails: 400, return
LogsBadPayload(r) ==
    /\ lpc[r] = "new"
    /\ lresp' = [lresp EXCEPT ![r] = [code |-> 400, msg |-> "Invalid request payload"]]
    /\ lpc' = [lpc EXCEPT ![r] = "done"]
    /\ UNCHANGED <<lreq, llevel, lseen, lsent, subs, busOpen, nsub, nunsub,
                   instVars, tunnelVars>>

\* the payload is decoded; an empty level becomes "info"
LogsDecode(r, lvl) ==
    /\ lpc[r] = "new"
    /\ lreq' = [lreq EXCEPT ![r] = IF lvl = "" THEN "info" ELSE lvl]
    /\ lpc' = [lpc EXCEPT ![r] = "level"]
    /\ UNCHANGED <<llevel, lresp, lseen, lsent, subs, busOpen, nsub, nunsub,
                   instVars, tunnelVars>>

\* a lookup that falls back to info for a level it does not know
LogsBadLevelCoerced(r) ==
    /\ lpc[r] = "level"
    /\ lreq[r] \notin DOMAIN LevelMapping
    /\ llevel' = [llevel EXCEPT ![r] = LevelMapping["info"]]
    /\ lpc' = [lpc EXCEPT ![r] = "subscribe"]
    /\ UNCHANGED <<lreq, lresp, lseen, lsent, subs, busOpen, nsub, nunsub,
                   instVars, tunnelVars>>

\* levelMapping has no such key: 400, return
LogsBadLevel(r) ==
    /\ lpc[r] = "level"
    /\ lreq[r] \notin DOMAIN LevelMapping
    /\ lresp' = [lresp EXCEPT ![r] = [code |-> 400, msg |-> "Invalid log level"]]
    /\ lpc' = [lpc EXCEPT ![r] = "done"]
    /\ UNCHANGED <<lreq, llevel, lseen, lsent, subs, busOpen, nsub, nunsub,
                   instVars, tunnelVars>>

\* level, ok := levelMapping[req.Level] with ok
LogsLevelOk(r) ==
    /\ lpc[r] = "level"
    /\ lreq[r] \in DOMAIN LevelMapping
    /\ llevel' = [llevel EXCEPT ![r] = LevelMapping[lreq[r]]]
    /\ lpc' = [lpc EXCEPT ![r] = "subscribe"]
    /\ UNCHANGED <<lreq, lresp, lseen, lsent, subs, busOpen, nsub, nunsub,
                   instVars, tunnelVars>>

\* src.Subscribe() returns a subscription; UnSubscribe is deferred
LogsSubscribe(r) ==
    /\ lpc[r] = "subscribe"
    /\ CanSubscribe
    /\ subs' = subs \cup {r}
    /\ nsub' = [nsub EXCEPT ![r] = @ + 1]
    /\ lpc' = [lpc EXCEPT ![r] = "flusher"]
    /\ UNCHANGED <<lreq, llevel, lresp, lseen, lsent, busOpen, nunsub,
                   instVars, tunnelVars>>

\* src.Subscribe() returns an error: 500, return
LogsSubscribeFail(r) ==
    /\ lpc[r] = "subscribe"
    /\ ~CanSubscribe
    /\ lresp' = [lresp EXCEPT ![r] = [code |-> 500, msg |-> "Unable to subscribe to logs"]]
    /\ lpc' = [lpc EXCEPT ![r] = "done"]
    /\ UNCHANGED <<lreq, llevel, lseen, lsent, subs, busOpen, nsub, nunsub,
                   instVars, tunnelVars>>

\* a return for a writer that cannot flush which skips the deferred UnSubscribe
LogsNoFlusherLeak(r) ==
    /\ lpc[r] = "flusher"
    /\ lresp' = [lresp EXCEPT ![r] = [code |-> 500, msg |-> "Streaming not supported"]]
    /\ lpc' = [lpc EXCEPT ![r] = "done"]
    /\ UNCHANGED <<lreq, llevel, lseen, lsent, subs, busOpen, nsub, nunsub,
                   instVars, tunnelVars>>

\* the writer is no http.Flusher: 500, return, the deferred UnSubscribe runs
LogsNoFlusher(r) ==
    /\ lpc[r] = "flusher"
    /\ lresp' = [lresp EXCEPT ![r] = [code |-> 500, msg |-> "Streaming not supported"]]
    /\ subs' = UnSubscribe(subs, r)
    /\ nunsub' = [nunsub EXCEPT ![r] = @ + 1]
    /\ lpc' = [lpc EXCEPT ![r] = "done"]
    /\ UNCHANGED <<lreq, llevel, lseen, lsent, busOpen, nsub, instVars, tunnelVars>>

\* the writer is an http.Flusher: the handler enters the range loop
LogsStream(r) ==
    /\ lpc[r] = "flusher"
    /\ lpc' = [lpc EXCEPT ![r] = "stream"]
    /\ UNCHANGED <<lreq, llevel, lresp, lseen, lsent, subs, busOpen, nsub, nunsub,
                   instVars, tunnelVars>>

\* one turn of the loop: an event of level lv arrives; it is skipped when it
\* is more verbose than asked for, encoded and flushed otherwise
LogsEvent(r, lv) ==
    /\ lpc[r] = "stream"
    /\ r \in subs
    /\ lseen[r] < MaxEvents
    /\ lseen' = [lseen EXCEPT ![r] = @ + 1]
    /\ lsent' = [lsent EXCEPT ![r] = IF lv > llevel[r] THEN @ ELSE @ + 1]
    /\ UNCHANGED <<lpc, lreq, llevel, lresp, subs, busOpen, nsub, nunsub,
                   instVars, tunnelVars>>

\* Encode fails on an event that is not skipped: break, the deferred
\* UnSubscribe runs
LogsEncodeFail(r, lv) ==
    /\ lpc[r] = "stream"
    /\ r \in subs
    /\ lv <= llevel[r]
    /\ subs' = UnSubscribe(subs, r)
    /\ nunsub' = [nunsub EXCEPT ![r] = @ + 1]
    /\ lpc' = [lpc EXCEPT ![r] = "done"]
    /\ UNCHANGED <<lreq, llevel, lresp, lseen, lsent, busOpen, nsub, instVars, tunnelVars>>

\* the subscription channel is closed: the loop ends, the deferred UnSubscribe
\* runs
LogsChanClosed(r) ==
    /\ lpc[r] = "stream"
    /\ r \notin subs
    /\ subs' = UnSubscribe(subs, r)
    /\ nunsub' = [nunsub EXCEPT ![r] = @ + 1]
    /\ lpc' = [lpc EXCEPT ![r] = "done"]
    /\ UNCHANGED <<lreq, llevel, lresp, lseen, lsent, busOpen, nsub, instVars, tunnelVars>>

\* the bus is closed for good: every subscription channel is closed
BusClose ==
    /\ busOpen
    /\ busOpen' = FALSE
    /\ subs' = {}
    /\ UNCHANGED <<lpc, lreq, llevel, lresp, lseen, lsent, nsub, nunsub,
                   instVars, tunnelVars>>

\* ------------------------------------------------------------------ GetInstance
\* a Do that lets a caller in as long as the function has not returned
CanDoUnlocked == once # "done"

\* once.Do: the first caller runs the function
CanDo == once = "fresh"

\* once.Do(...) by the first caller: the function starts
GIOnceDo(g) ==
    /\ gpc[g] = "idle"
    /\ CanDo
    /\ once' = "running"
    /\ gpc' = [gpc EXCEPT ![g] = "new"]
    /\ UNCHANGED <<tunnel, built, nprocess, nsublogs, gret, hubVars, tunnelVars>>

\* once.Do(...) while the function runs: the caller blocks
GIOnceWait(g) ==
    /\ gpc[g] = "idle"
    /\ once = "running"
    /\ gpc' = [gpc EXCEPT ![g] = "blocked"]
    /\ UNCHANGED <<once, tunnel, built, nprocess, nsublogs, gret, hubVars, tunnelVars>>

\* once.Do(...) after the function returned: nothing is run
GIOnceSkip(g) ==
    /\ gpc[g] \in {"idle", "blocked"}
    /\ once = "done"
    /\ gpc' = [gpc EXCEPT ![g] = "ret"]
    /\ UNCHANGED <<once, tunnel, built, nprocess, nsublogs, gret, hubVars, tunnelVars>>

\* newTunnel: the Tunnel is allocated
GINew(g) ==
    /\ gpc[g] = "new"
    /\ built' = built + 1
    /\ gpc' = [gpc EXCEPT ![g] = "process"]
    /\ UNCHANGED <<once, tunnel, nprocess, nsublogs, gret, hubVars, tunnelVars>>

\* go tunnel.process()
GIGoProcess(g) ==
    /\ gpc[g] = "process"
    /\ nprocess' = nprocess + 1
    /\ gpc' = [gpc EXCEPT ![g] = "sublogs"]
    /\ UNCHANGED <<once, tunnel, built, nsublogs, gret, hubVars, tunnelVars>>

\* go tunnel.subscribeLogs()
GIGoSubscribeLogs(g) ==
    /\ gpc[g] = "sublogs"
    /\ nsublogs' = nsublogs + 1
    /\ gpc' = [gpc EXCEPT ![g] = "assign"]
    /\ UNCHANGED <<once, tunnel, built, nprocess, gret, hubVars, tunnelVars>>

\* tunnel = newTunnel(): the instance of this caller is stored, Do returns
GIAssign(g) ==
    /\ gpc[g] = "assign"
    /\ tunnel' = g
    /\ once' = "done"
    /\ gpc' = [gpc EXCEPT ![g] = "ret"]
    /\ UNCHANGED <<built, nprocess, nsublogs, gret, hubVars, tunnelVars>>

\* return tunnel
GIReturn(g) ==
    /\ gpc[g] = "ret"
    /\ gret' = [gret EXCEPT ![g] = tunnel]
    /\ gpc' = [gpc EXCEPT ![g] = "done"]
    /\ UNCHANGED <<once, tunnel, built, nprocess, nsublogs, hubVars, tunnelVars>>

\* ------------------------------------------------------------------ the program
Next ==
    \/ \E u \in Updaters : UCGetConfigFail(u)
    \/ \E u \in Updaters, cfg \in Docs : UCGetConfig(u, cfg)
    \/ \E u \in Updaters : UCCompileFail(u)
    \/ \E u \in Updaters : UCCompileOk(u)
    \/ \E u \in Updaters : UCLock(u)
    \/ \E u \in Updaters : UCAcquire(u)
    \/ \E u \in Updaters : UCStop(u)
    \/ \E u \in Updaters : UCSetProxies(u)
    \/ \E u \in Updaters : UCSetRules(u)
    \/ \E u \in Updaters : UCReturn(u)
    \/ \E c \in Conns, addr \in Addrs : Add(c, addr)
    \/ Process
    \/ \E c \in Conns : MatchRLock(c)
    \/ \E c \in Conns : MatchRange(c)
    \/ \E c \in Conns : MatchScan(c)
    \/ \E c \in Conns : MatchReturn(c)
    \/ \E c \in Conns : GeneratorPanic(c)
    \/ \E c \in Conns : GeneratorOk(c)
    \/ \E c \in Conns : GeneratorErr(c)
    \/ \E c \in Conns : Warn(c)
    \/ \E c \in Conns : Relay(c)
    \/ \E c \in Conns : CloseLocal(c)
    \/ ConfigRLock
    \/ ConfigRules
    \/ ConfigProxies
    \/ ConfigReturn

Spec == Init /\ [][Next]_vars

FairSpec == Spec /\ WF_vars(Process)

\* the reload path alone: the callers of UpdateConfig and of Config, no
\* connection submitted
ReloadNext ==
    \/ \E u \in Updaters : UCGetConfigFail(u)
    \/ \E u \in Updaters, cfg \in Docs : UCGetConfig(u, cfg)
    \/ \E u \in Updaters : UCCompileFail(u)
    \/ \E u \in Updaters : UCCompileOk(u)
    \/ \E u \in Updaters : UCLock(u)
    \/ \E u \in Updaters : UCAcquire(u)
    \/ \E u \in Updaters : UCStop(u)
    \/ \E u \in Updaters : UCSetProxies(u)
    \/ \E u \in Updaters : UCSetRules(u)
    \/ \E u \in Updaters : UCReturn(u)
    \/ ConfigRLock
    \/ ConfigRules
    \/ ConfigProxies
    \/ ConfigReturn

ReloadSpec == Init /\ [][ReloadNext]_vars

\* the connection path with one caller of UpdateConfig and no caller of Config
OneCaller == {u \in Updaters : \A v \in Updaters : u <= v}

HandlerNext ==
    \/ \E u \in OneCaller : UCGetConfigFail(u)
    \/ \E u \in OneCaller, cfg \in Docs : UCGetConfig(u, cfg)
    \/ \E u \in OneCaller : UCCompileFail(u)
    \/ \E u \in OneCaller : UCCompileOk(u)
    \/ \E u \in OneCaller : UCLock(u)
    \/ \E u \in OneCaller : UCAcquire(u)
    \/ \E u \in OneCaller : UCStop(u)
    \/ \E u \in OneCaller : UCSetProxies(u)
    \/ \E u \in OneCaller : UCSetRules(u)
    \/ \E u \in OneCaller : UCReturn(u)
    \/ \E c \in Conns, addr \in Addrs : Add(c, addr)
    \/ Process
    \/ \E c \in Conns : MatchRLock(c)
    \/ \E c \in Conns : MatchRange(c)
    \/ \E c \in Conns : MatchScan(c)
    \/ \E c \in Conns : MatchReturn(c)
    \/ \E c \in Conns : GeneratorPanic(c)
    \/ \E c \in Conns : GeneratorOk(c)
    \/ \E c \in Conns : GeneratorErr(c)
    \/ \E c \in Conns : Warn(c)
    \/ \E c \in Conns : Relay(c)
    \/ \E c \in Conns : CloseLocal(c)

HandlerSpec == Init /\ [][HandlerNext]_vars

\* the log stream handler serving its requests on the log bus
LogsNext ==
    \/ \E r \in Reqs : LogsBadPayload(r)
    \/ \E r \in Reqs, lvl \in LevelInputs : LogsDecode(r, lvl)
    \/ \E r \in Reqs : LogsBadLevel(r)
    \/ \E r \in Reqs : LogsLevelOk(r)
    \/ \E r \in Reqs : LogsSubscribe(r)
    \/ \E r \in Reqs : LogsSubscribeFail(r)
    \/ \E r \in Reqs : LogsNoFlusher(r)
    \/ \E r \in Reqs : LogsStream(r)
    \/ \E r \in Reqs, lv \in LogLevels : LogsEvent(r, lv)
    \/ \E r \in Reqs, lv \in LogLevels : LogsEncodeFail(r, lv)
    \/ \E r \in Reqs : LogsChanClosed(r)
    \/ BusClose

LogsSpec == Init /\ [][LogsNext]_vars

\* the callers of GetInstance
InstanceNext ==
    \/ \E g \in Callers : GIOnceDo(g)
    \/ \E g \in Callers : GIOnceWait(g)
    \/ \E g \in Callers : GIOnceSkip(g)
    \/ \E g \in Callers : GINew(g)
    \/ \E g \in Callers : GIGoProcess(g)
    \/ \E g \in Callers : GIGoSubscribeLogs(g)
    \/ \E g \in Callers : GIAssign(g)
    \/ \E g \in Callers : GIReturn(g)

InstanceSpec == Init /\ [][InstanceNext]_vars

\* ------------------------------------------------------------------ claims
\* the positions of the rules of rs that match addr
Matching(rs, addr) == {i \in 1..Len(rs) : IsMatch(rs[i], addr)}

First(S) == CHOOSE i \in S : \A j \in S : i <= j

\* every rule of rs names a proxy of tbl
AllNamed(rs, tbl) == \A i \in 1..Len(rs) : Has(tbl, rs[i].adapter)

\* C1: when every rule of the live rule table names a proxy of the live proxy
\* table, match returns the proxy of the first rule, in declaration order,
\* that matches the address, and what is stored under DIRECT when none does.
C1_RuleOrder ==
    [][\A c \in Conns :
         (MatchReturn(c) /\ AllNamed(rules.seq, proxies.tbl)) =>
            LET m == Matching(rules.seq, haddr[c]) IN
            hproxy'[c].proxy =
                IF m = {} THEN Get(proxies.tbl, DIRECT)
                ELSE proxies.tbl[rules.seq[First(m)].adapter]]_vars

\* a match returned the group of the GEOIP rule although FINAL matches too
C1_Witness ==
    \E c \in Conns :
        /\ hpc[c] = "generator"
        /\ hproxy[c].found
        /\ hproxy[c].proxy.kind = "urltest"
        /\ hproxy[c].gen = rules.gen
        /\ AllNamed(rules.seq, proxies.tbl)
        /\ Cardinality(Matching(rules.seq, haddr[c])) >= 2

\* C2: when the first rule that matches names an adapter the proxy table does
\* not hold, match returns the DIRECT proxy and sends one info log event; it
\* does not return the proxy of a later rule that matches.
C2_StaleFallsBackToDirect ==
    [][\A c \in Conns :
         LET m == Matching(rules.seq, haddr[c]) IN
         (/\ MatchReturn(c)
          /\ m # {}
          /\ ~Has(proxies.tbl, rules.seq[First(m)].adapter)) =>
            /\ hproxy'[c].proxy = Get(proxies.tbl, DIRECT)
            /\ hlogs'[c] = Append(hlogs[c], "INFO")]_vars

\* C3: a reader holding the shared lock sees a rule table and a proxy table of
\* the same UpdateConfig call (or both of the initial state): Config's two
\* reads, match's range over t.rules and its lookups in t.proxies.
C3_AtomicSwap ==
    /\ cpc = "proxies" => cseen.rules = proxies.gen
    /\ cpc = "ret" => cseen.rules = cseen.proxies
    /\ \A c \in Conns :
        /\ hpc[c] \in {"scan", "log"} => hrules[c].gen = proxies.gen
        /\ hpc[c] = "log" => hrules[c].gen = hproxy[c].gen

\* Config has read both tables of an UpdateConfig while another writer waits,
\* and a match holds the tables of that call too
C3_Witness ==
    /\ cpc = "ret"
    /\ cseen.rules # InitGen
    /\ writer # NoWriter
    /\ \E c \in Conns : hpc[c] = "log" /\ hrules[c].gen = cseen.rules


\* C4: a call of UpdateConfig that returns an error (the configuration is not
\* read, a tunnel proxy or a url-test group is refused) leaves the live rule
\* table and the live proxy table as they were and has called Close on no
\* group of the live table.
C4_FailedReloadKeepsLive ==
    [][\A u \in Updaters :
         (/\ upc[u] # "done" /\ upc'[u] = "done"
          /\ (UCGetConfigFail(u) \/ UCCompileFail(u))) =>
            /\ ures'[u] = "err"
            /\ rules' = rules
            /\ proxies' = proxies
            /\ \A g \in DOMAIN closes : closes'[g] = closes[g]
            /\ GroupsOf(proxies.tbl) \cap alive' = GroupsOf(proxies.tbl) \cap alive]_vars

\* a call has failed and the groups of the live table have their probe task
C4_Witness ==
    \E u \in Updaters :
        /\ ures[u] = "err"
        /\ proxies.gen # InitGen
        /\ GroupsOf(proxies.tbl) # {}
        /\ GroupsOf(proxies.tbl) \subseteq alive
        /\ \A g \in GroupsOf(proxies.tbl) : closes[g] = 0

\* C5: the live proxy table holds DIRECT and REJECT in every state, the one
\* after construction included, so no handling task calls Generator on a
\* missing proxy.
C5_ReservedAlwaysPresent ==
    /\ Has(proxies.tbl, DIRECT)
    /\ Has(proxies.tbl, REJECT)
    /\ \A c \in Conns : hpc[c] = "generator" => hproxy[c].proxy # NoProxy

\* C6: the live proxy table a successful UpdateConfig installed maps DIRECT to
\* the built-in direct proxy and REJECT to the built-in reject proxy of that
\* call, whatever the document declared under those names.
C6_ReservedOverride ==
    proxies.gen # InitGen =>
        /\ Get(proxies.tbl, DIRECT) = NewDirect(proxies.gen)
        /\ Get(proxies.tbl, REJECT) = NewReject(proxies.gen)

\* the live tables come from the document that declares a tunnel proxy named
\* DIRECT and a group named REJECT; that group was built and is not in the table
C6_Witness ==
    /\ proxies.gen # InitGen
    /\ rules.gen = proxies.gen
    /\ rules.seq = ParseRules(DocStale.rule, 1, << >>)
    /\ <<proxies.gen, 1>> \in alive \ GroupsOf(proxies.tbl)
    /\ proxies.tbl[REJECT].kind = "reject"
    /\ proxies.tbl[DIRECT].kind = "direct"

\* C7: the teardown step of a successful UpdateConfig runs under the exclusive
\* lock with the previous tables still live; it calls Close once on every
\* url-test group of the previous proxy table and on nothing else, and the
\* groups of the new table are other instances.
C7_TeardownOfPrevious ==
    [][\A u \in Updaters :
         UCStop(u) =>
            /\ writer = u /\ wheld /\ readers = {}
            /\ proxies' = proxies /\ rules' = rules
            /\ GroupsOf(unew[u].proxies.tbl) \cap GroupsOf(proxies.tbl) = {}
            /\ \A g \in DOMAIN closes :
                 closes'[g] = IF g \in GroupsOf(proxies.tbl) THEN closes[g] + 1
                              ELSE closes[g]]_vars

\* after the teardown and before the swap: a group of the previous table and
\* the group of the same name of the new table, the first closed once, the
\* second not at all
C7_Witness ==
    \E u \in Updaters :
        /\ upc[u] = "proxies"
        /\ \E n \in DOMAIN proxies.tbl \cap DOMAIN unew[u].proxies.tbl :
            /\ IsGroup(proxies.tbl[n])
            /\ IsGroup(unew[u].proxies.tbl[n])
            /\ closes[Inst(proxies.tbl[n])] = 1
            /\ closes[Inst(unew[u].proxies.tbl[n])] = 0

\* C8: once every call of UpdateConfig has returned, the url-test groups whose
\* probe task is alive (built and never closed) are those of the live proxy
\* table.
C8_NoLeakedGroup ==
    (\A u \in Updaters : upc[u] \in {"idle", "done"}) =>
        alive = GroupsOf(proxies.tbl)


\* the number of fields of a line: one more than its separators
NumFields(s) == 1 + Cardinality({i \in 1..Len(s) : s[i] = COMMA})

IsWord(tok) == tok # SPACE

\* the first field of a line without its white space
KindOf(s) ==
    LET i == IndexFrom(s, 1)
        first == IF i = 0 THEN s ELSE SubSeq(s, 1, i - 1)
    IN  SelectSeq(first, IsWord)

KnownKinds ==
    {Str("DOMAIN-SUFFIX"), Str("DOMAIN-KEYWORD"), Str("GEOIP"),
     Str("IP-CIDR"), Str("IP-CIDR6"), Str("FINAL")}

\* the entries of a rule section that have three fields or more and a known kind
ValidEntries(keys) ==
    {i \in 1..Len(keys) :
        NumFields(keys[i].name) >= 3 /\ KindOf(keys[i].name) \in KnownKinds}

\* the k-th element of a set of numbers, in increasing order
Nth(S, k) == CHOOSE i \in S : Cardinality({j \in S : j < i}) = k - 1

TypeOf(kind) == IF kind = Str("IP-CIDR6") THEN "IP-CIDR" ELSE kind[1]

\* C9: the compile of the rule section never fails: an entry with fewer than
\* three fields or of an unknown kind is skipped, and the rule table holds one
\* rule for each other entry, in declaration order. A section of one 2-field
\* line and one FINAL line gives a table of one rule and no error.
C9_BadRuleEntriesSkipped ==
    [][\A u \in Updaters :
         (upc[u] = "compile" /\ upc'[u] # "compile") =>
            LET cfg == ucfg[u] IN
            /\ UCCompileOk(u) =>
                 LET out == unew'[u].rules.seq
                     v == ValidEntries(cfg.rule)
                 IN  /\ Len(out) = Cardinality(v)
                     /\ \A k \in 1..Len(out) :
                          LET line == cfg.rule[Nth(v, k)].name IN
                          /\ out[k].type = TypeOf(KindOf(line))
                          /\ out[k].adapter = TrimSpace(Split(line)[3])
            /\ (UCCompileOk(u) /\ cfg = DocMalformed) =>
                 unew'[u].rules.seq = <<NewFinal(DIRECT)>>
            /\ UCCompileFail(u) =>
                 /\ cfg # DocMalformed
                 /\ Compile([cfg EXCEPT !.rule = << >>], u).err]_vars

\* a call returned no error and installed the one-rule table of that section
C9_Witness ==
    \E u \in Updaters :
        /\ ures[u] = "ok"
        /\ rules.gen = u
        /\ rules.seq = <<NewFinal(DIRECT)>>
        /\ Len(DocMalformed.rule) = 2

\* C10: under fair scheduling of the dispatch loop, every handle passed to Add
\* is eventually dequeued and given its handling task, whatever the handling
\* tasks of other connections do.
C10_EveryHandleDispatched ==
    \A c \in Conns : (hpc[c] = "queued") ~> (hpc[c] # "queued")

\* the last log event a handling task sent is the WARNING of a failed connect
Warned(c) == hlogs[c] # << >> /\ hlogs[c][Len(hlogs[c])] = "WARNING"

\* C11: localConn.Close runs exactly once on every exit path of a handling
\* task (failed connect, finished relay) and never before the task ends; when
\* the outbound connect succeeded, remoteConn.Close has run exactly once before
\* localConn.Close runs, and never runs again.
C11_ClosedOnEveryPath ==
    \A c \in Conns :
        /\ lclosed[c] <= 1 /\ rclosed[c] <= 1
        /\ hpc[c] = "done" => lclosed[c] = 1
        /\ lclosed[c] = 1 => hpc[c] \in {"done", "panic"}
        /\ hpc[c] = "relay" => lclosed[c] = 0 /\ rclosed[c] = 0
        /\ (hpc[c] = "closing" /\ ~Warned(c)) => lclosed[c] = 0 /\ rclosed[c] = 1
        /\ (hpc[c] = "done" /\ ~Warned(c)) => rclosed[c] = 1

\* one task ended after a relay, another after a failed connect
C11_Witness ==
    \E c, d \in Conns :
        /\ hpc[c] = "done" /\ ~Warned(c) /\ rclosed[c] = 1 /\ lclosed[c] = 1
        /\ hpc[d] = "done" /\ Warned(d) /\ lclosed[d] = 1

\* the WARNING events among the log events of a handling task
Warnings(c) == {i \in 1..Len(hlogs[c]) : hlogs[c][i] = "WARNING"}

\* what belongs to the handling tasks other than c
Others(c, q, pc, a, rs, px, lg, lc, rc) ==
    <<q, [d \in Conns \ {c} |-> <<pc[d], a[d], rs[d], px[d], lg[d], lc[d], rc[d]>>]>>

\* C12: when proxy.Generator returns an error the handling task sends one
\* WARNING event and returns: the only steps it takes are that send and the
\* deferred localConn.Close, it never reaches Connect, never calls Close on an
\* outbound connection and never calls Generator again; these steps leave the
\* other handling tasks, the queue, the live tables and the lock as they are.
C12_FailedConnect ==
    /\ [](\A c \in Conns :
         /\ hpc[c] = "warn" => rclosed[c] = 0 /\ lclosed[c] = 0 /\ Warnings(c) = {}
         /\ Warned(c) =>
              /\ hpc[c] \in {"closing", "done"}
              /\ rclosed[c] = 0
              /\ Cardinality(Warnings(c)) = 1)
    /\ [][\A c \in Conns :
            (/\ hpc'[c] # hpc[c]
             /\ \/ hpc[c] = "generator" /\ hpc'[c] = "warn"
                \/ hpc[c] = "warn"
                \/ hpc[c] = "closing" /\ Warned(c)) =>
               /\ hpc[c] = "generator" => hpc'[c] = "warn"
               /\ hpc[c] = "warn" => hpc'[c] = "closing" /\ Warned(c)'
               /\ hpc[c] = "closing" => hpc'[c] = "done"
               /\ rclosed'[c] = 0
               /\ UNCHANGED <<hubVars, instVars, tableVars, lockVars, updVars, groupVars, cfgVars>>
               /\ Others(c, queue, hpc, haddr, hrules, hproxy, hlogs, lclosed, rclosed)'
                    = Others(c, queue, hpc, haddr, hrules, hproxy, hlogs, lclosed, rclosed)]_vars

\* a connect failed through a proxy of installed tables while another task is
\* relaying; the failed task has ended
C12_Witness ==
    \E c, d \in Conns :
        /\ hpc[c] = "done" /\ Warned(c) /\ rclosed[c] = 0
        /\ hpc[d] = "relay"
        /\ proxies.gen # InitGen

\* the level strings the log stream handler is to accept
Accepted == {"debug", "info", "warning", "error"}

\* C13: the log stream handler answers a level string other than debug, info,
\* warning and error with 400 and returns without subscribing; the empty level
\* stands for info; a Subscribe that fails is answered with 500 and the handler
\* returns with no second Subscribe and nothing streamed.
C13_LevelAndSubscribeErrors ==
    /\ [](\A r \in Reqs :
         /\ lpc[r] \in {"subscribe", "flusher", "stream"} =>
              /\ lreq[r] \in Accepted
              /\ llevel[r] = LevelMapping[lreq[r]]
              /\ lresp[r] = NoResp
         /\ lresp[r].code = 400 => lpc[r] = "done" /\ nsub[r] = 0 /\ r \notin subs
         /\ lresp[r].msg = "Unable to subscribe to logs" =>
              /\ lresp[r].code = 500 /\ lpc[r] = "done"
              /\ nsub[r] = 0 /\ lseen[r] = 0 /\ lsent[r] = 0)
    /\ [][\A r \in Reqs :
            /\ LogsDecode(r, "") => lreq'[r] = "info"
            /\ (lpc[r] = "level" /\ lpc'[r] # "level") =>
                 IF lreq[r] \in Accepted
                 THEN lpc'[r] = "subscribe" /\ lresp'[r] = NoResp
                 ELSE /\ lpc'[r] = "done"
                      /\ lresp'[r] = [code |-> 400, msg |-> "Invalid log level"]
                      /\ nsub'[r] = 0 /\ subs' = subs
            /\ (lpc[r] = "subscribe" /\ lpc'[r] # "subscribe" /\ ~busOpen) =>
                 /\ lpc'[r] = "done"
                 /\ lresp'[r].code = 500
                 /\ nsub'[r] = 0 /\ subs' = subs]_vars

\* one request was refused for its level, another for the closed bus
C13_Witness ==
    \E r, q \in Reqs :
        /\ lresp[r] = [code |-> 400, msg |-> "Invalid log level"]
        /\ lreq[r] = "trace"
        /\ lresp[q].msg = "Unable to subscribe to logs"
        /\ lreq[q] = "info"

\* C14: in the rule table a successful UpdateConfig installed, a FINAL rule
\* is the last rule of the table.
C14_FinalIsLast ==
    rules.gen # InitGen =>
        \A i \in 1..Len(rules.seq) :
            rules.seq[i].type = "FINAL" => i = Len(rules.seq)

\* the entries of a section whose value has at least n fields and the kind k
EntriesOf(keys, n, k) ==
    {i \in 1..Len(keys) : NumFields(keys[i].value) >= n /\ KindOf(keys[i].value) = Str(k)}

\* the names a group entry lists: its fields but the kind, the URL and the delay
ListedNames(value) ==
    LET group == trimArr(Split(value)) IN SubSeq(group, 2, Len(group) - 2)

\* the keys of the proxy table when the i-th group entry is compiled: the
\* tunnel proxies and the groups declared before it
KeysBefore(cfg, i) ==
    {cfg.proxy[j].name : j \in EntriesOf(cfg.proxy, 5, "ss")}
        \cup {cfg.group[j].name : j \in {k \in EntriesOf(cfg.group, 4, "url-test") : k < i}}

NamesOf(ps) == [k \in 1..Len(ps) |-> ps[k].name]

\* C20: a compile that succeeds builds one url-test group for every group
\* entry, also when none of its names resolves; the members of a group are the
\* names its entry lists that are keys of the proxy table at that point (tunnel
\* proxies, groups declared earlier), in listed order, the built-in DIRECT and
\* REJECT never among them.
C20_GroupMembers ==
    [][\A u \in Updaters :
         (upc[u] = "compile" /\ upc'[u] = "lock") =>
            LET cfg == ucfg[u]
                tbl == unew'[u].proxies.tbl
            IN
            /\ \A i \in EntriesOf(cfg.group, 4, "url-test") : <<u, i>> \in alive'
            /\ \A n \in DOMAIN tbl :
                 IsGroup(tbl[n]) =>
                    LET i == tbl[n].slot
                        keys == KeysBefore(cfg, i)
                    IN
                    /\ i \in EntriesOf(cfg.group, 4, "url-test")
                    /\ cfg.group[i].name = n
                    /\ NamesOf(tbl[n].members) =
                         SelectSeq(ListedNames(cfg.group[i].value), LAMBDA x : x \in keys)
                    /\ \A k \in 1..Len(tbl[n].members) :
                         tbl[n].members[k].kind \in {"ss", "urltest"}]_vars

\* one call has compiled a group of a tunnel proxy and an earlier group, in
\* listed order, and a group whose DIRECT was dropped; another has compiled a
\* group with no member at all
C20_Witness ==
    \E u, v \in Updaters :
        /\ upc[u] = "lock" /\ upc[v] = "lock"
        /\ Has(unew[u].proxies.tbl, Str("pick"))
        /\ Has(unew[v].proxies.tbl, Str("lone"))
        /\ NamesOf(unew[u].proxies.tbl[Str("pick")].members) = <<Str("auto"), Str("PROXY1")>>
        /\ NamesOf(unew[u].proxies.tbl[Str("auto")].members) = <<Str("PROXY1")>>
        /\ IsGroup(unew[v].proxies.tbl[Str("lone")])
        /\ unew[v].proxies.tbl[Str("lone")].members = << >>
        /\ <<v, 3>> \in alive

\* C18: the log stream handler calls UnSubscribe exactly once for the
\* subscription it obtained, when it returns and not before, whatever the exit
\* (no flusher, failed encode, closed subscription channel), and never without
\* a subscription; once every request has returned no subscription is live.
C18_UnsubscribedOnReturn ==
    /\ \A r \in Reqs :
         /\ nsub[r] <= 1
         /\ lpc[r] # "done" => nunsub[r] = 0
         /\ lpc[r] = "done" => nunsub[r] = nsub[r] /\ r \notin subs
         /\ lpc[r] \in {"flusher", "stream"} => nsub[r] = 1
    /\ (\A r \in Reqs : lpc[r] = "done") => subs = {}

\* both requests have returned on an open bus, one for want of a flusher, the
\* other out of the loop after an entry was sent
C18_Witness ==
    \E r, q \in Reqs :
        /\ busOpen
        /\ lpc[r] = "done" /\ lresp[r].msg = "Streaming not supported"
        /\ nsub[r] = 1 /\ nunsub[r] = 1
        /\ lpc[q] = "done" /\ lresp[q] = NoResp /\ lsent[q] > 0
        /\ nsub[q] = 1 /\ nunsub[q] = 1
        /\ subs = {}

\* C19: whatever the number of concurrent callers of GetInstance, newTunnel
\* runs at most once and starts at most one process task and one subscribeLogs
\* task; every caller that has returned got the one instance it built, with
\* both tasks started.
C19_Singleton ==
    /\ built <= 1 /\ nprocess <= 1 /\ nsublogs <= 1
    /\ \A g \in Callers :
         gpc[g] = "done" =>
            /\ gret[g] # NoTunnel
            /\ gret[g] = tunnel
            /\ built = 1 /\ nprocess = 1 /\ nsublogs = 1
    /\ \A g, h \in Callers :
         (gpc[g] = "done" /\ gpc[h] = "done") => gret[g] = gret[h]

\* all the callers have returned with the one instance
C19_Witness ==
    /\ \A g \in Callers : gpc[g] = "done" /\ gret[g] = tunnel
    /\ Cardinality(Callers) >= 3
    /\ built = 1 /\ nprocess = 1 /\ nsublogs = 1

\* C15: a caller of UpdateConfig is the writer of the config lock only from
\* Lock() to its return, and holds the exclusive mode only in the teardown and
\* the two assignments: it reads and compiles the document before. A handling
\* task holds the shared mode only inside match: not when it calls Generator,
\* relays or logs a failed connect.
C15_LockDiscipline ==
    /\ \A u \in Updaters :
         /\ upc[u] \in {"idle", "compile", "lock", "done"} => writer # u
         /\ (writer = u /\ wheld) <=> upc[u] \in {"stop", "proxies", "rules", "unlock"}
         /\ ucfg[u] # NoDoc => upc[u] = "compile"
    /\ \A c \in Conns :
         Me(c) \in readers <=> hpc[c] \in {"range", "scan", "log"}
    /\ wheld => readers = {}

\* a caller holds the exclusive mode in its teardown while one handling task
\* is about to connect and another relays
C15_Witness ==
    \E u \in Updaters, c, d \in Conns :
        /\ wheld /\ writer = u /\ upc[u] = "stop"
        /\ hpc[c] = "generator"
        /\ hproxy[c].proxy # NoProxy
        /\ hpc[d] = "relay"

\* C16: a reload takes nothing from a connection in flight: no step of
\* UpdateConfig changes the proxy a handling task got from match, its position
\* or the count of Close calls on its connections; the task connects through
\* that proxy and relays on its connection; a match returns from the tables
\* that are live when it returns.
C16_InFlightKeepsProxy ==
    [][/\ \A u \in Updaters :
            upc'[u] # upc[u] => UNCHANGED <<hpc, hproxy, haddr, lclosed, rclosed, queue>>
       /\ \A c \in Conns :
            /\ (hpc[c] = "generator" /\ hpc'[c] = "relay") =>
                 hproxy'[c] = hproxy[c] /\ CanConnect(hproxy[c].proxy)
            /\ (hpc[c] \in {"generator", "relay"} /\ hpc'[c] = hpc[c]) =>
                 hproxy'[c] = hproxy[c]
            /\ (hpc[c] = "log" /\ hpc'[c] = "generator") =>
                 /\ hproxy'[c].gen = proxies.gen
                 /\ hproxy'[c].proxy \in {proxies.tbl[n] : n \in DOMAIN proxies.tbl}
                                           \cup {NoProxy}]_vars

\* a task relays on the connection of a proxy of replaced tables while another
\* task has got a proxy of the tables now live
C16_Witness ==
    \E c, d \in Conns :
        /\ hpc[c] = "relay"
        /\ hproxy[c].proxy # NoProxy
        /\ hproxy[c].gen # InitGen
        /\ hproxy[c].gen # proxies.gen
        /\ hpc[d] = "generator"
        /\ hproxy[d].gen = proxies.gen
        /\ hproxy[d].proxy # NoProxy

\* C17: a match does not hold the shared mode of the config lock while its
\* log event waits to be received from the unbuffered logCh.
C17_NoLockWhileLogging ==
    \A c \in Conns : hpc[c] = "log" => Me(c) \notin readers

====
